---- MODULE Spec2Model ----
(***************************************************************************)
(* Model of src/app.py (Scrum Team Assistant).                             *)
(*                                                                         *)
(* A Python str is a sequence of one-character strings, so that split,     *)
(* strip and the "in" test are computed character by character.  A dict is *)
(* a function whose domain is the set of its keys.  A list is a sequence.  *)
(*                                                                         *)
(* Three specifications:                                                   *)
(*   Spec       main(): the Streamlit script, one action per script run    *)
(*   SpecParse  the functions called on a breakdown text and on the        *)
(*              records parsed from it                                     *)
(*   SpecTable  the functions called on records that may lack keys         *)
(***************************************************************************)
EXTENDS Integers, Sequences, FiniteSets, TLC

VARIABLES
    uploaded_file,    \* main(): the file in the st.file_uploader widget, or None
    session_state,    \* main(): st.session_state, a function on the keys set so far
    shown,            \* main(): what the last script run displayed
    breakdown_text,   \* argument of parse_breakdown_from_text
    breakdown_items,  \* argument of the functions that take the list of records
    called,           \* name of the function called last, "none" before any call
    result            \* what that call returned or raised

vars == <<uploaded_file, session_state, shown,
          breakdown_text, breakdown_items, called, result>>

mainVars == <<uploaded_file, session_state, shown>>
fnVars   == <<breakdown_text, breakdown_items, called, result>>

-----------------------------------------------------------------------------
(* Bounds *)

\* most lines of a breakdown text
MaxLines == 3

\* most records of a list handed to the functions in SpecTable
MaxRecords == 2

-----------------------------------------------------------------------------
(* Python strings and their methods *)

None == "None"

EmptyStr == << >>

ColonSp == <<":", " ">>
CommaSp == <<",", " ">>
SemiSp  == <<";", " ">>
NewLine == <<"\n">>

\* str.find(sep, i): the lowest index >= i at which sep occurs in s, 0 if none
find(s, sep, i) ==
    LET hits == {j \in i..(Len(s) - Len(sep) + 1) : SubSeq(s, j, j + Len(sep) - 1) = sep}
    IN  IF hits = {} THEN 0 ELSE CHOOSE j \in hits : \A h \in hits : j <= h

\* str.split(sep): the pieces of s between the non-overlapping occurrences of
\* sep, scanned from the left; always at least one piece
RECURSIVE split(_, _)
split(s, sep) ==
    LET i == find(s, sep, 1)
    IN  IF i = 0 THEN <<s>>
        ELSE <<SubSeq(s, 1, i - 1)>> \o split(SubSeq(s, i + Len(sep), Len(s)), sep)

IsSpace(c) == c \in {" ", "\n", "\t", "\r"}

RECURSIVE lstrip(_)
lstrip(s) == IF s # << >> /\ IsSpace(Head(s)) THEN lstrip(Tail(s)) ELSE s

RECURSIVE rstrip(_)
rstrip(s) ==
    IF s # << >> /\ IsSpace(s[Len(s)]) THEN rstrip(SubSeq(s, 1, Len(s) - 1)) ELSE s

\* str.strip()
strip(s) == lstrip(rstrip(s))

\* sep.join(pieces)
RECURSIVE join(_, _)
join(pieces, sep) ==
    IF pieces = << >> THEN EmptyStr
    ELSE IF Len(pieces) = 1 THEN pieces[1]
    ELSE pieces[1] \o sep \o join(Tail(pieces), sep)

\* x in list
InList(x, list) == \E i \in 1..Len(list) : list[i] = x

-----------------------------------------------------------------------------
(* parse_breakdown_from_text *)

Keys == {"Summary", "Issue Type", "Epic Name", "Story Points", "Dependencies"}

\* the part of a line each key is read from (parts[0] .. parts[4])
PartOf(k) ==
    CASE k = "Summary"      -> 1
      [] k = "Issue Type"   -> 2
      [] k = "Epic Name"    -> 3
      [] k = "Story Points" -> 4
      [] k = "Dependencies" -> 5

\* least number of parts of a line that yields a record
MinParts == 5

\* part.split(": ")[1] if len(part.split(": ")) > 1 else ""
field_value(part) ==
    LET p == split(part, ColonSp)
    IN  IF Len(p) > 1 THEN p[2] ELSE EmptyStr

\* the dict appended for a line whose parts are `parts`
line_record(parts) == [k \in Keys |-> field_value(parts[PartOf(k)])]

\* the body of the loop over the lines
RECURSIVE parse_lines(_)
parse_lines(lines) ==
    IF lines = << >> THEN << >>
    ELSE LET parts == split(Head(lines), CommaSp)
         IN  (IF Len(parts) >= MinParts THEN <<line_record(parts)>> ELSE << >>)
             \o parse_lines(Tail(lines))

\* a parser that gives up at the first line with too few parts
RECURSIVE parse_lines_until_malformed(_)
parse_lines_until_malformed(lines) ==
    IF lines = << >> THEN << >>
    ELSE LET parts == split(Head(lines), CommaSp)
         IN  IF Len(parts) >= MinParts
             THEN <<line_record(parts)>> \o parse_lines_until_malformed(Tail(lines))
             ELSE << >>

parse_until_malformed(text) == parse_lines_until_malformed(split(text, NewLine))

parse_breakdown_from_text(text) == parse_lines(split(text, NewLine))

-----------------------------------------------------------------------------
(* Breakdown texts the language model may answer with *)

kSummary      == <<"S","u","m","m","a","r","y">>
kIssueType    == <<"I","s","s","u","e"," ","T","y","p","e">>
kEpicName     == <<"E","p","i","c"," ","N","a","m","e">>
kStoryPoints  == <<"S","t","o","r","y"," ","P","o","i","n","t","s">>
kDependencies == <<"D","e","p","e","n","d","e","n","c","i","e","s">>

DesignLoginPage == <<"D","e","s","i","g","n"," ","l","o","g","i","n"," ","p","a","g","e">>
ImplementOAuth  == <<"I","m","p","l","e","m","e","n","t"," ","O","A","u","t","h">>
Auth        == <<"A","u","t","h">>
Task        == <<"T","a","s","k">>
Epic        == <<"E","p","i","c">>
FixLoginBug == <<"F","i","x",":"," ","l","o","g","i","n"," ","b","u","g">>
Fix         == <<"F","i","x">>
AddTests    == <<"A","d","d"," ","t","e","s","t","s">>
QA          == <<"Q","A">>
Deploy      == <<"D","e","p","l","o","y">>

Field(key, value) == key \o ColonSp \o value

\* "Summary: Design login page, Issue Type: Task, Epic Name: Auth,
\*  Story Points: 3, Dependencies: "
LineDesign ==
    join(<<Field(kSummary, DesignLoginPage), Field(kIssueType, Task),
           Field(kEpicName, Auth), Field(kStoryPoints, <<"3">>),
           Field(kDependencies, EmptyStr)>>, CommaSp)

\* "Summary: Implement OAuth, Issue Type: Task, Epic Name: Auth,
\*  Story Points: 8, Dependencies: Design login page"
LineOAuth ==
    join(<<Field(kSummary, ImplementOAuth), Field(kIssueType, Task),
           Field(kEpicName, Auth), Field(kStoryPoints, <<"8">>),
           Field(kDependencies, DesignLoginPage)>>, CommaSp)

\* "Summary: Auth, Issue Type: Epic, Epic Name: , Story Points: "
\* (the shape of the epic line of the prompt's Example Output: four parts)
LineEpic4 ==
    join(<<Field(kSummary, Auth), Field(kIssueType, Epic),
           Field(kEpicName, EmptyStr), Field(kStoryPoints, EmptyStr)>>, CommaSp)

\* the same epic with an empty Dependencies field: five parts
LineEpic5 ==
    join(<<Field(kSummary, Auth), Field(kIssueType, Epic),
           Field(kEpicName, EmptyStr), Field(kStoryPoints, EmptyStr),
           Field(kDependencies, EmptyStr)>>, CommaSp)

\* "Summary: Fix: login bug, Issue Type: Task, Epic Name: Auth,
\*  Story Points: 2, Dependencies: Fix; Design login page"
\* (a value that holds ": ", and two dependencies)
LineFix ==
    join(<<Field(kSummary, FixLoginBug), Field(kIssueType, Task),
           Field(kEpicName, Auth), Field(kStoryPoints, <<"2">>),
           Field(kDependencies, Fix \o SemiSp \o DesignLoginPage)>>, CommaSp)

\* "Summary: Add tests, Issue Type: Task, Epic Name: QA, Story Points,
\*  Dependencies:  Implement OAuth; Deploy; Add tests"
\* (a part without ": ", a dependency after two spaces, a dependency
\*  that names no record, a dependency on the record itself)
LineTests ==
    join(<<Field(kSummary, AddTests), Field(kIssueType, Task),
           Field(kEpicName, QA), kStoryPoints,
           Field(kDependencies,
                 <<" ">> \o ImplementOAuth \o SemiSp \o Deploy \o SemiSp \o AddTests)>>,
         CommaSp)

Lines == {LineDesign, LineOAuth, LineEpic4, LineEpic5, LineFix, LineTests, EmptyStr}

RECURSIVE SeqsUpTo(_, _)
SeqsUpTo(S, n) ==
    IF n = 0 THEN {<< >>}
    ELSE LET shorter == SeqsUpTo(S, n - 1)
         IN  shorter \cup {Append(s, x) : s \in shorter, x \in S}

\* every text of at most MaxLines lines
Texts == {join(ls, NewLine) : ls \in SeqsUpTo(Lines, MaxLines)}

\* the Scenario text of the specification: two tasks, then the epic line
ScenarioText == join(<<LineDesign, LineOAuth, LineEpic4>>, NewLine)

-----------------------------------------------------------------------------
(* Calls *)

Ok(v)     == [status |-> "ok", value |-> v]
Raised(e) == [status |-> "raised", value |-> e]

NoResult == Ok(None)

\* a Python str met where a dict is expected (an element of the list
\* generate_epics_and_tasks returns when the response is falsy)
PyStr(s) == [str |-> s]

IsDict(item) == "str" \notin DOMAIN item

\* item.get(key, default)
get(item, key, default) == IF key \in DOMAIN item THEN item[key] ELSE default

\* the first of the indexes in bad, 0 if there is none: the loops raise on
\* the first item they cannot handle
FirstOf(bad) == IF bad = {} THEN 0 ELSE CHOOSE i \in bad : \A j \in bad : i <= j

-----------------------------------------------------------------------------
(* process_to_dataframe *)

Columns == <<"Summary", "Issue Type", "Epic Name", "Story Points", "Dependencies">>

\* the dict appended to data for one item
dataframe_row(item) == [k \in Keys |-> get(item, k, EmptyStr)]

\* a projection that leaves out the records without a Summary
process_records_with_summary(items) ==
    Ok([columns |-> Columns,
        rows    |-> LET kept == SelectSeq(items, LAMBDA item : "Summary" \in DOMAIN item)
                    IN  [i \in 1..Len(kept) |-> dataframe_row(kept[i])]])

process_to_dataframe(items) ==
    IF \E i \in 1..Len(items) : ~IsDict(items[i])
    THEN Raised("AttributeError")              \* a str has no get
    ELSE Ok([columns |-> Columns,
             rows    |-> [i \in 1..Len(items) |-> dataframe_row(items[i])]])

-----------------------------------------------------------------------------
(* generate_dependency_matrix *)

\* pd.DataFrame(0, index=tasks, columns=tasks)
zero_matrix(tasks) ==
    [index   |-> tasks,
     columns |-> tasks,
     cells   |-> [i \in 1..Len(tasks) |-> [j \in 1..Len(tasks) |-> 0]]]

\* matrix.at[task, dependency] = 1.  With labels that are not unique .at
\* falls back to .loc, which writes every cell whose row is labelled task
\* and whose column is labelled dependency.
set_at(matrix, task, dependency) ==
    [matrix EXCEPT !.cells =
        [i \in 1..Len(matrix.index) |-> [j \in 1..Len(matrix.columns) |->
            IF matrix.index[i] = task /\ matrix.columns[j] = dependency
            THEN 1 ELSE matrix.cells[i][j]]]]

\* for dependency in dependencies: if dependency in tasks: matrix.at[...] = 1
RECURSIVE mark_dependencies(_, _, _, _)
mark_dependencies(matrix, tasks, task, dependencies) ==
    IF dependencies = << >> THEN matrix
    ELSE mark_dependencies(
            IF InList(Head(dependencies), tasks)
            THEN set_at(matrix, task, Head(dependencies)) ELSE matrix,
            tasks, task, Tail(dependencies))

\* for item in breakdown_items: ...
RECURSIVE mark_items(_, _, _)
mark_items(matrix, tasks, items) ==
    IF items = << >> THEN matrix
    ELSE mark_items(
            mark_dependencies(matrix, tasks, Head(items)["Summary"],
                              split(Head(items)["Dependencies"], SemiSp)),
            tasks, Tail(items))

NoSummary(item) == ~IsDict(item) \/ "Summary" \notin DOMAIN item

generate_dependency_matrix(items) ==
    LET bad == FirstOf({i \in 1..Len(items) : NoSummary(items[i])})
    IN  IF bad # 0
        THEN (IF IsDict(items[bad]) THEN Raised("KeyError") ELSE Raised("TypeError"))
        ELSE IF \E i \in 1..Len(items) : "Dependencies" \notin DOMAIN items[i]
        THEN Raised("KeyError")
        ELSE LET tasks == [i \in 1..Len(items) |-> items[i]["Summary"]]
             IN  Ok(mark_items(zero_matrix(tasks), tasks, items))

-----------------------------------------------------------------------------
(* visualize_dependencies_with_plotly, visualize_dependencies_with_networkx:
   the nx.DiGraph each of them builds before it draws *)

EmptyGraph == [nodes |-> {}, edges |-> {}]

\* G.add_node(epic); G.add_node(task); G.add_edge(epic, task)
add_epic_task(G, epic, task) ==
    [nodes |-> G.nodes \cup {epic, task},
     edges |-> G.edges \cup {<<epic, task>>}]

RECURSIVE plotly_graph(_, _)
plotly_graph(G, items) ==
    IF items = << >> THEN G
    ELSE plotly_graph(add_epic_task(G, Head(items)["Epic Name"], Head(items)["Summary"]),
                      Tail(items))

NoEpicOrSummary(item) ==
    ~IsDict(item) \/ "Epic Name" \notin DOMAIN item \/ "Summary" \notin DOMAIN item

visualize_dependencies_with_plotly(items) ==
    LET bad == FirstOf({i \in 1..Len(items) : NoEpicOrSummary(items[i])})
    IN  IF bad # 0
        THEN (IF IsDict(items[bad]) THEN Raised("KeyError") ELSE Raised("TypeError"))
        ELSE Ok(plotly_graph(EmptyGraph, items))

\* "if item:" is false of the empty dict
Truthy(item) == DOMAIN item # {}

RECURSIVE networkx_graph(_, _)
networkx_graph(G, items) ==
    IF items = << >> THEN G
    ELSE networkx_graph(
            IF Truthy(Head(items))
            THEN add_epic_task(G, Head(items)["Epic Name"], Head(items)["Summary"])
            ELSE G,
            Tail(items))

\* item.get('Epic Name') and item.get('Summary') are None for a missing key,
\* and G.add_node(None) raises ValueError; a str has no get
NoneNode(item) == ~IsDict(item) \/ (Truthy(item) /\ NoEpicOrSummary(item))

visualize_dependencies_with_networkx(items) ==
    LET bad == FirstOf({i \in 1..Len(items) : NoneNode(items[i])})
    IN  IF bad # 0
        THEN (IF IsDict(items[bad]) THEN Raised("ValueError") ELSE Raised("AttributeError"))
        ELSE Ok(networkx_graph(EmptyGraph, items))

-----------------------------------------------------------------------------
(* The functions called one at a time *)

CallParse ==
    /\ called = "none"
    /\ breakdown_items' = parse_breakdown_from_text(breakdown_text)
    /\ called' = "parse_breakdown_from_text"
    /\ result' = Ok(breakdown_items')
    /\ UNCHANGED <<breakdown_text, mainVars>>

\* the records are at hand: parsed, or handed over by the caller
HaveItems == called \in {"parse_breakdown_from_text", "caller"}

CallProcessToDataframe ==
    /\ HaveItems
    /\ called' = "process_to_dataframe"
    /\ result' = process_to_dataframe(breakdown_items)
    /\ UNCHANGED <<breakdown_text, breakdown_items, mainVars>>

CallGenerateDependencyMatrix ==
    /\ HaveItems
    /\ called' = "generate_dependency_matrix"
    /\ result' = generate_dependency_matrix(breakdown_items)
    /\ UNCHANGED <<breakdown_text, breakdown_items, mainVars>>

CallVisualizePlotly ==
    /\ HaveItems
    /\ called' = "visualize_dependencies_with_plotly"
    /\ result' = visualize_dependencies_with_plotly(breakdown_items)
    /\ UNCHANGED <<breakdown_text, breakdown_items, mainVars>>

CallVisualizeNetworkx ==
    /\ HaveItems
    /\ called' = "visualize_dependencies_with_networkx"
    /\ result' = visualize_dependencies_with_networkx(breakdown_items)
    /\ UNCHANGED <<breakdown_text, breakdown_items, mainVars>>

InitParse ==
    /\ uploaded_file = None
    /\ session_state = << >>
    /\ shown = None
    /\ breakdown_text \in Texts
    /\ breakdown_items = << >>
    /\ called = "none"
    /\ result = NoResult

NextParse ==
    \/ CallParse
    \/ CallProcessToDataframe
    \/ CallGenerateDependencyMatrix
    \/ CallVisualizePlotly
    \/ CallVisualizeNetworkx

SpecParse == InitParse /\ [][NextParse]_vars

-----------------------------------------------------------------------------
(* Records that may lack keys *)

\* the record parse_breakdown_from_text makes of LineOAuth
RecordOAuth ==
    [k \in Keys |->
        CASE k = "Summary"      -> ImplementOAuth
          [] k = "Issue Type"   -> Task
          [] k = "Epic Name"    -> Auth
          [] k = "Story Points" -> <<"8">>
          [] k = "Dependencies" -> DesignLoginPage]

\* the dict d without the keys outside K
Restrict(d, K) == [k \in DOMAIN d \cap K |-> d[k]]

PartialRecords == {Restrict(RecordOAuth, K) : K \in SUBSET Keys}

RecordLists == SeqsUpTo(PartialRecords, MaxRecords)

InitTable ==
    /\ uploaded_file = None
    /\ session_state = << >>
    /\ shown = None
    /\ breakdown_text = EmptyStr
    /\ breakdown_items \in RecordLists
    /\ called = "caller"
    /\ result = NoResult

NextTable ==
    \/ CallProcessToDataframe
    \/ CallGenerateDependencyMatrix
    \/ CallVisualizePlotly
    \/ CallVisualizeNetworkx

SpecTable == InitTable /\ [][NextTable]_vars

-----------------------------------------------------------------------------
(* main(): the Streamlit script.  Streamlit runs the script from the top on
   every widget event, with at most one button reading True, and keeps
   st.session_state between the runs.  An exception nobody catches ends the
   run where it is raised.  Each action below is one whole run.

   transcribe and summarize_transcription are memoised by st.cache: a call
   with arguments seen before returns the value returned before, which is
   one of the outcomes drawn here. *)

\* the session values carry their Python type
PyList(l) == [list |-> l]

isinstance_str(v) == "str" \in DOMAIN v

EmptyDict == [k \in {} |-> None]

\* st.session_state.key = value
setattr(state, key, value) ==
    [k \in DOMAIN state \cup {key} |-> IF k = key THEN value ELSE state[k]]

Files == {"meeting.mp3"}

\* transcribe(): the text of the transcription, the fallback for a
\* transcription without 'text', or "" after st.error when anything raised
TranscriptText     == "We need a login page with OAuth."
NoTranscript       == "No transcript available."
TranscribeFailed   == ""
TranscribeErrorMsg == "Failed to transcribe audio"

\* summarize_transcription(): the content of the response, the fallback for
\* a falsy response; an error of the openai call is not caught
SummaryText         == "Login page first, then OAuth."
SummarizationFailed == "Summarization failed."

\* the contents the language model may answer Generate Breakdown with
ResponseContents ==
    { EmptyStr,
      ScenarioText,
      LineEpic4,
      join(<<LineEpic5, LineOAuth>>, NewLine),
      NewLine \o LineFix \o NewLine,
      join(<<LineOAuth, LineTests>>, NewLine) }

\* generate_epics_and_tasks: the return for a falsy response
BreakdownFailed == <<PyStr("Breakdown generation failed.")>>

\* generate_epics_and_tasks, given the response of the ChatCompletion call
generate_epics_and_tasks(response) ==
    IF response.truthy
    THEN parse_breakdown_from_text(strip(response.content))
    ELSE BreakdownFailed

\* a falsy response, or one that holds a content
Responses ==
    {[truthy |-> FALSE, content |-> EmptyStr]}
        \cup {[truthy |-> TRUE, content |-> c] : c \in ResponseContents}

InvalidBreakdownMsg == "Failed to generate a valid breakdown."

\* what a run displays: the button that read True, the st.error messages,
\* the exception that ended the run, the table and the matrix drawn
\* (each a list of one element, empty when it was not drawn)
Display(button, errors, exception, table, matrix) ==
    [button |-> button, errors |-> errors, exception |-> exception,
     table |-> table, matrix |-> matrix]

\* the last section without the test that the stored list is not empty
dependency_section_of_any_list(state, button, errors) ==
    IF "breakdown_items" \in DOMAIN state
    THEN LET df == process_to_dataframe(state["breakdown_items"].list)
             m  == generate_dependency_matrix(state["breakdown_items"].list)
         IN  IF df.status = "raised"
             THEN Display(button, errors, df.value, << >>, << >>)
             ELSE IF m.status = "raised"
             THEN Display(button, errors, m.value, << >>, << >>)
             ELSE Display(button, errors, None, <<df.value>>, <<m.value>>)
    ELSE Display(button, errors, None, << >>, << >>)

\* the last section of main(), "Visualization and Dataframe under expander",
\* reached by a run that displayed `errors` for the button it handled
dependency_section(state, button, errors) ==
    IF "breakdown_items" \in DOMAIN state /\ state["breakdown_items"].list # << >>
    THEN IF ~isinstance_str(state["breakdown_items"])
         THEN LET df == process_to_dataframe(state["breakdown_items"].list)
                  m  == generate_dependency_matrix(state["breakdown_items"].list)
              IN  IF df.status = "raised"
                  THEN Display(button, errors, df.value, << >>, << >>)
                  ELSE IF m.status = "raised"
                  THEN Display(button, errors, m.value, << >>, << >>)
                  ELSE Display(button, errors, None, <<df.value>>, <<m.value>>)
         ELSE Display(button, errors \cup {InvalidBreakdownMsg}, None, << >>, << >>)
    ELSE Display(button, errors, None, << >>, << >>)

\* a run with no button pressed, after the user chose or removed the file
ChooseFile ==
    /\ \E f \in Files \cup {None} : uploaded_file' = f
    /\ shown' = dependency_section(session_state, "none", {})
    /\ UNCHANGED <<session_state, fnVars>>

StartTranscription ==
    /\ uploaded_file # None
    /\ \E transcription \in {TranscriptText, NoTranscript, TranscribeFailed} :
          /\ session_state' = setattr(session_state, "transcription", PyStr(transcription))
          /\ shown' = dependency_section(session_state', "Start Transcription",
                         IF transcription = TranscribeFailed
                         THEN {TranscribeErrorMsg} ELSE {})
    /\ UNCHANGED <<uploaded_file, fnVars>>

Summarize ==
    /\ "transcription" \in DOMAIN session_state
    /\ \/ \E summary \in {SummaryText, SummarizationFailed} :
            /\ session_state' = setattr(session_state, "summary", PyStr(summary))
            /\ shown' = dependency_section(session_state', "Summarize", {})
       \/ /\ shown' = Display("Summarize", {}, "OpenAIError", << >>, << >>)
          /\ UNCHANGED session_state
    /\ UNCHANGED <<uploaded_file, fnVars>>

UpdateConfluence ==
    /\ "summary" \in DOMAIN session_state
    /\ \/ shown' = dependency_section(session_state, "Update Page on Confluence", {})
       \/ shown' = dependency_section(session_state, "Update Page on Confluence",
                                      {"Failed to update Confluence page"})
       \/ shown' = Display("Update Page on Confluence", {}, "HTTPError", << >>, << >>)
    /\ UNCHANGED <<uploaded_file, session_state, fnVars>>

GenerateBreakdown ==
    /\ "summary" \in DOMAIN session_state
    /\ \/ \E response \in Responses :
            /\ session_state' = setattr(session_state, "breakdown_items",
                                        PyList(generate_epics_and_tasks(response)))
            /\ shown' = dependency_section(session_state', "Generate Breakdown", {})
       \/ /\ shown' = Display("Generate Breakdown", {}, "OpenAIError", << >>, << >>)
          /\ UNCHANGED session_state
    /\ UNCHANGED <<uploaded_file, fnVars>>

Init ==
    /\ uploaded_file = None
    /\ session_state = EmptyDict
    /\ shown = Display("none", {}, None, << >>, << >>)
    /\ breakdown_text = EmptyStr
    /\ breakdown_items = << >>
    /\ called = "none"
    /\ result = NoResult

Next ==
    \/ ChooseFile
    \/ StartTranscription
    \/ Summarize
    \/ UpdateConfluence
    \/ GenerateBreakdown

Spec == Init /\ [][Next]_vars

-----------------------------------------------------------------------------
(* Notions the claims are stated in *)

\* the number of places of s at which sep stands (", " cannot overlap itself)
Occurrences(s, sep) ==
    Cardinality({i \in 1..(Len(s) - Len(sep) + 1) : SubSeq(s, i, i + Len(sep) - 1) = sep})

NumFields(line) == Occurrences(line, CommaSp) + 1

\* the lines of a text, by the places of its newline characters
NewlinesOf(text) == {i \in 1..Len(text) : text[i] = "\n"}

NthNewline(text, n) ==
    IF n = 0 THEN 0
    ELSE IF n > Cardinality(NewlinesOf(text)) THEN Len(text) + 1
    ELSE CHOOSE p \in NewlinesOf(text) :
            Cardinality({q \in NewlinesOf(text) : q < p}) = n - 1

LinesOf(text) ==
    [n \in 1..(Cardinality(NewlinesOf(text)) + 1) |->
        SubSeq(text, NthNewline(text, n - 1) + 1, NthNewline(text, n) - 1)]

Qualifies(line) == NumFields(line) >= MinParts

Contains(s, sep) == find(s, sep, 1) # 0

\* the whole of s after the first occurrence of sep
AfterFirst(s, sep) == SubSeq(s, find(s, sep, 1) + Len(sep), Len(s))

\* every line has at least five fields and every field holds ": "
WellFormed(text) ==
    \A n \in 1..Len(LinesOf(text)) :
        LET fields == split(LinesOf(text)[n], CommaSp)
        IN  /\ Len(fields) >= 5
            /\ \A f \in 1..Len(fields) : Contains(fields[f], ColonSp)

\* in SpecParse breakdown_items holds the parsed records once parse was called
Parsed == called # "none"

Summaries(items) == {items[i]["Summary"] : i \in 1..Len(items)}

\* the names of a Dependencies value, split on "; " and trimmed
TrimmedNames(dependencies) ==
    {strip(split(dependencies, SemiSp)[n]) : n \in 1..Len(split(dependencies, SemiSp))}

\* the names of a Dependencies value, split on "; "
Names(dependencies) ==
    {split(dependencies, SemiSp)[n] : n \in 1..Len(split(dependencies, SemiSp))}

\* the elements of a list, each kept where it occurs first
RECURSIVE DistinctInOrder(_)
DistinctInOrder(list) ==
    IF list = << >> THEN << >>
    ELSE LET front == DistinctInOrder(SubSeq(list, 1, Len(list) - 1))
         IN  IF InList(list[Len(list)], front) THEN front
             ELSE Append(front, list[Len(list)])

IsEpicRecord(item) == item["Issue Type"] = Epic

RECURSIVE TaskSummaries(_)
TaskSummaries(items) ==
    IF items = << >> THEN << >>
    ELSE (IF IsEpicRecord(Head(items)) THEN << >> ELSE <<Head(items)["Summary"]>>)
         \o TaskSummaries(Tail(items))

GraphBuilt ==
    called \in {"visualize_dependencies_with_plotly",
                "visualize_dependencies_with_networkx"}

-----------------------------------------------------------------------------
(* Claims *)

\* C1 (as claimed): for a text whose every line has at least 5 fields, each
\* holding ": ", parse_breakdown_from_text returns one record per line, in
\* line order, and each of the five values is the whole of its field after
\* the first ": " (also when the value holds ": " itself).
C1_ValueIsAllAfterFirstSeparator ==
    (Parsed /\ WellFormed(breakdown_text)) =>
        /\ Len(breakdown_items) = Len(LinesOf(breakdown_text))
        /\ \A n \in 1..Len(breakdown_items) : \A k \in Keys :
              breakdown_items[n][k] =
                  AfterFirst(split(LinesOf(breakdown_text)[n], CommaSp)[PartOf(k)],
                             ColonSp)

\* C2: parse_breakdown_from_text returns for every text; the records it
\* returns are those of the lines with at least the minimum number of
\* fields, each in its place, whatever lines come before or after; there
\* are no more records than non-empty lines; the empty text gives no record.
C2_MalformedLinesAreSkipped ==
    Parsed =>
        LET kept == SelectSeq(LinesOf(breakdown_text), Qualifies)
        IN  /\ called = "parse_breakdown_from_text" => result.status = "ok"
            /\ Len(breakdown_items) = Len(kept)
            /\ \A n \in 1..Len(kept) :
                  breakdown_items[n] = line_record(split(kept[n], CommaSp))
            /\ Len(breakdown_items) <=
                  Cardinality({n \in 1..Len(LinesOf(breakdown_text)) :
                                  LinesOf(breakdown_text)[n] # EmptyStr})
            /\ breakdown_text = EmptyStr => breakdown_items = << >>

\* C2 witness: a line with too few fields between two lines that qualify,
\* and both of them parsed.
C2_Witness ==
    /\ called = "parse_breakdown_from_text"
    /\ breakdown_text = join(<<LineDesign, LineEpic4, LineOAuth>>, NewLine)
    /\ Len(breakdown_items) = 2
    /\ breakdown_items[1]["Summary"] = DesignLoginPage
    /\ breakdown_items[2]["Summary"] = ImplementOAuth

\* C3 (as claimed): the Scenario text parses into 3 records, and its
\* dependency matrix is 2x2 over the two tasks with only the cell
\* (Implement OAuth, Design login page) set.
C3_ScenarioGivesThreeRecords ==
    (Parsed /\ breakdown_text = ScenarioText) =>
        /\ Len(breakdown_items) = 3
        /\ called = "generate_dependency_matrix" =>
              /\ result.status = "ok"
              /\ result.value.index = <<DesignLoginPage, ImplementOAuth>>
              /\ result.value.columns = <<DesignLoginPage, ImplementOAuth>>
              /\ result.value.cells = <<(<<0, 0>>), (<<1, 0>>)>>

\* C4 (as claimed): the cell (t, d) of the matrix is 1 exactly when d is
\* among the names of t's Dependencies, split on "; " and trimmed of
\* whitespace; every other cell is 0; every row and column is labelled with
\* the Summary of a record.
C4_CellIffTrimmedDependency ==
    (Parsed /\ called = "generate_dependency_matrix") =>
        /\ result.status = "ok"
        /\ \A i \in 1..Len(result.value.index) :
              result.value.index[i] \in Summaries(breakdown_items)
        /\ \A j \in 1..Len(result.value.columns) :
              result.value.columns[j] \in Summaries(breakdown_items)
        /\ \A i \in 1..Len(result.value.index) :
           \A j \in 1..Len(result.value.columns) :
              /\ result.value.cells[i][j] \in {0, 1}
              /\ result.value.cells[i][j] = 1 <=>
                    \E r \in 1..Len(breakdown_items) :
                        /\ breakdown_items[r]["Summary"] = result.value.index[i]
                        /\ result.value.columns[j] \in
                              TrimmedNames(breakdown_items[r]["Dependencies"])

\* C5 (as claimed): the matrix has one row and one column for each distinct
\* Summary of the records that are not epics, in the order of first
\* occurrence.
C5_RowsAreDistinctTaskSummaries ==
    (Parsed /\ called = "generate_dependency_matrix") =>
        /\ result.status = "ok"
        /\ result.value.index = DistinctInOrder(TaskSummaries(breakdown_items))
        /\ result.value.columns = DistinctInOrder(TaskSummaries(breakdown_items))

\* C6 (as claimed): the graph has the edge Epic Name -> Summary of a record
\* exactly when its Epic Name is not empty, and its nodes are the Summary
\* values and the non-empty Epic Name values.
C6_EpicEdgeIffEpicNamed ==
    (Parsed /\ GraphBuilt) =>
        /\ result.status = "ok"
        /\ \A n \in 1..Len(breakdown_items) :
              <<breakdown_items[n]["Epic Name"], breakdown_items[n]["Summary"]>>
                    \in result.value.edges
                 <=> breakdown_items[n]["Epic Name"] # EmptyStr
        /\ result.value.nodes =
              Summaries(breakdown_items)
                 \cup {breakdown_items[n]["Epic Name"] : n \in
                          {m \in 1..Len(breakdown_items) :
                              breakdown_items[m]["Epic Name"] # EmptyStr}}

\* C7 (as claimed): the graph has the edge Summary -> name for every name in
\* a record's Dependencies that is the Summary of a record, and none for a
\* name that is not.
C7_DependencyEdges ==
    (Parsed /\ GraphBuilt) =>
        /\ result.status = "ok"
        /\ \A n \in 1..Len(breakdown_items) :
           \A name \in Names(breakdown_items[n]["Dependencies"]) :
              IF name \in Summaries(breakdown_items)
              THEN <<breakdown_items[n]["Summary"], name>> \in result.value.edges
              ELSE <<breakdown_items[n]["Summary"], name>> \notin result.value.edges

\* C8: process_to_dataframe returns for every list of records, also records
\* that lack keys: the five columns, and one row per record in the order of
\* the list, each value that of the record, or "" where the key is missing.
C8_OneRowPerRecordWithDefaults ==
    called = "process_to_dataframe" =>
        /\ result.status = "ok"
        /\ result.value.columns = Columns
        /\ Len(result.value.rows) = Len(breakdown_items)
        /\ \A n \in 1..Len(breakdown_items) :
              /\ DOMAIN result.value.rows[n] = Keys
              /\ \A k \in Keys :
                    result.value.rows[n][k] =
                        IF k \in DOMAIN breakdown_items[n]
                        THEN breakdown_items[n][k] ELSE EmptyStr

\* C8 witness: two different records, the first lacking keys, the second
\* the empty dict, made into two rows.
C8_Witness ==
    /\ called = "process_to_dataframe"
    /\ Len(breakdown_items) = 2
    /\ DOMAIN breakdown_items[1] = {"Summary", "Dependencies"}
    /\ DOMAIN breakdown_items[2] = {}
    /\ result.status = "ok"
    /\ Len(result.value.rows) = 2

HasKey(key) == key \in DOMAIN session_state

\* the list stored under 'breakdown_items' is the failure value
FailureStored ==
    HasKey("breakdown_items") /\ session_state["breakdown_items"].list = BreakdownFailed

\* the run went through the last section of main()
ReachedDependencySection == shown.exception \notin {"OpenAIError", "HTTPError"}

\* C9 (as claimed): a run of main() that meets the failure value of the
\* breakdown generation shows "Failed to generate a valid breakdown." and
\* builds neither the table nor the matrix from it, and a failed
\* transcription is not stored as the session's transcription.
C9_FailureIsSurfaced ==
    /\ (FailureStored /\ ReachedDependencySection) =>
          /\ InvalidBreakdownMsg \in shown.errors
          /\ shown.exception = None
          /\ shown.table = << >>
          /\ shown.matrix = << >>
    /\ HasKey("transcription") =>
          session_state["transcription"].str # TranscribeFailed

\* the button whose handler stores a key
ButtonOf(key) ==
    CASE key = "transcription"   -> "Start Transcription"
      [] key = "summary"         -> "Summarize"
      [] key = "breakdown_items" -> "Generate Breakdown"

SessionOrdered ==
    /\ HasKey("summary") => HasKey("transcription")
    /\ HasKey("breakdown_items") => HasKey("summary")
    /\ (shown.table # << >> \/ shown.matrix # << >>) =>
          /\ HasKey("breakdown_items")
          /\ session_state["breakdown_items"].list # << >>

SessionStep ==
    /\ DOMAIN session_state \subseteq DOMAIN session_state'
    /\ \A k \in DOMAIN session_state' :
          (k \notin DOMAIN session_state \/ session_state'[k] # session_state[k])
             => shown'.button = ButtonOf(k)

\* C10: in every run of main() 'summary' is set only with 'transcription'
\* and 'breakdown_items' only with 'summary'; no run removes a key, and a key
\* is set or changed only by the run of its own button; the table and the
\* matrix are drawn only with 'breakdown_items' set and not empty.
C10_SessionAdvancesInOrder == []SessionOrdered /\ [][SessionStep]_vars

\* C10 witness: the three keys set and the table and the matrix drawn.
C10_Witness ==
    /\ DOMAIN session_state = {"transcription", "summary", "breakdown_items"}
    /\ Len(session_state["breakdown_items"].list) = 2
    /\ shown.table # << >>
    /\ shown.matrix # << >>

====
